---- MODULE Spec2Model ----
(***************************************************************************)
(* The crawl-dedupe-persist pipeline of scraper_v2.py (process_urls, the   *)
(* JSON store, the command-line entry point, the desktop UI) and the HTTP  *)
(* service of server.py that runs process_urls as a background task.       *)
(*                                                                         *)
(* A URL is a sequence of tokens: the two scheme strings, the slash and    *)
(* opaque pieces of text.  A document is a record with the url it was      *)
(* fetched under and its text (title and extracted_at are left out).  The  *)
(* store file is a record whose kind says what bytes are under the store   *)
(* path: absent, garbage (not JSON), empty or partial (a write in          *)
(* progress), list (a bare JSON array), obj (an object with articles),     *)
(* noart (an object without articles), scalar (any other JSON value).      *)
(***************************************************************************)
EXTENDS Naturals, Sequences, FiniteSets

VARIABLES
    file,                 \* what is under json_path on disk
    sink,                 \* the calls ingest_data_to_astra made to the vector store
    launches,             \* processes / requests started so far
    prev,                 \* the last process, if it ran process_urls([u]) to its end
    is_running,           \* task_status["is_running"] of server.py
    http_status,          \* the status of the last POST /api/scrape response
    status,               \* per worker: idle, queued, running, done, aborted, crashed
    pc,                   \* per worker: the statement the worker is at
    mode,                 \* per worker: direct or paginated
    urls,                 \* per worker: the urls argument of process_urls
    idx,                  \* per worker: position of the for loop in urls
    data_store,           \* per worker: the data_store dict
    existing_normalized,  \* per worker: the set existing_normalized
    new_articles,         \* per worker: the list new_articles
    next_link,            \* per worker: next_link of the paginated entry point
    handle,               \* per worker: the state of the file handle of _save_json_data
    prior,                \* per worker: the file content before the save in progress
    loaded,               \* per worker: the articles process_urls loaded
    report,               \* per worker: the per-URL lines given to log_fn
    fetched,              \* per worker: the requests.get calls: loop position, url, what came back
    ingest_log,           \* per worker: the closing line given to log_fn
    loaded_link,          \* per worker: next_link of the store file when process_urls loaded it
    log_fn,               \* the log_fn given to process_urls: print, or _enqueue_log of the desktop UI
    start_btn,            \* desktop UI: state of the Start Process button
    log_queue,            \* desktop UI: self.log_queue
    log_box,              \* desktop UI: the lines shown in the activity log
    polling,              \* desktop UI: the main thread is inside the loop of _poll_log_queue
    norm_in,              \* a pair of URLs given to normalize
    norm_out              \* their dedup keys, once normalize was applied

storeVars  == <<file, sink>>
hostVars   == <<launches, prev, is_running, http_status>>
workerVars == <<status, pc, mode, urls, idx, data_store, existing_normalized,
                new_articles, next_link, handle, prior, loaded, report, fetched,
                ingest_log, loaded_link>>
guiVars    == <<log_fn, start_btn, log_queue, log_box, polling>>
normVars   == <<norm_in, norm_out>>
\* What process_urls and its callers in the CLI and the service never touch
quietVars  == <<log_fn, start_btn, log_box, polling, normVars>>
vars == <<storeVars, hostVars, workerVars, guiVars, normVars>>

----------------------------------------------------------------------------
(* Bounds *)

MaxUrls == 3
MaxRuns == 2
MaxRequests == 2
MaxBody == 1
MaxLen == 3
MaxRestarts == 3

----------------------------------------------------------------------------
(* URLs, documents, file contents *)

HTTPS == "https://"
HTTP  == "http://"
SLASH == "/"

U1 == <<HTTPS, "a">>
U2 == <<HTTP, "a", SLASH>>
U3 == <<HTTPS, "b">>
URLs == {U1, U2, U3}

ListingUrl == <<HTTPS, "island.lk", SLASH, "?s=", "mas">>
NextPage   == <<HTTPS, "island.lk", SLASH, "page", SLASH, "2", SLASH, "?s=", "mas">>

\* Python's None for next_link, and the falsy url of a stored entry without one
NoLink == <<>>
NoUrl  == <<>>

Doc(u, t) == [url |-> u, text |-> t, success |-> TRUE]
\* The None that scrape_article_content returns
NoContent == [url |-> NoUrl, text |-> "", success |-> FALSE]

FileRec(k, a, n) == [kind |-> k, articles |-> a, next_link |-> n]

\* Contents the store path can hold before the first run
InitFiles ==
    { FileRec("absent", <<>>, NoLink),
      FileRec("garbage", <<>>, NoLink),
      FileRec("list", <<Doc(U1, "old")>>, NoLink),
      FileRec("obj", <<>>, NoLink),
      FileRec("obj", <<Doc(U3, "old"), Doc(NoUrl, "old")>>, NextPage),
      FileRec("noart", <<>>, NoLink),
      FileRec("scalar", <<>>, NoLink) }

UrlLists(n) == UNION {[1..k -> URLs] : k \in 0..n}

RECURSIVE SeqToSet(_)
SeqToSet(s) == IF s = <<>> THEN {} ELSE {Head(s)} \cup SeqToSet(Tail(s))

----------------------------------------------------------------------------
(* Pure functions of scraper_v2.py *)

\* str.replace(tok, ""): every occurrence of the token is removed
Replace(u, tok) == SelectSeq(u, LAMBDA x : x # tok)

\* str.rstrip("/"): every trailing slash is removed
RECURSIVE RStrip(_)
RStrip(u) ==
    IF u # <<>> /\ u[Len(u)] = SLASH THEN RStrip(SubSeq(u, 1, Len(u) - 1)) ELSE u

normalize(u) == RStrip(Replace(Replace(u, HTTPS), HTTP))

\* Mutant: the index is not built from the stored articles
ExistingNormalized_Empty(articles) == {}

\* {normalize(a.get("url")) for a in data_store["articles"] if a.get("url")}
ExistingNormalized(articles) ==
    {normalize(articles[i].url) : i \in {j \in 1..Len(articles) : articles[j].url # NoUrl}}

\* Mutant: the load keeps the articles and forgets next_link
_load_json_data_DropsLink(f) ==
    IF f.kind \in {"absent", "garbage", "empty", "partial"}
    THEN FileRec("obj", <<>>, NoLink)
    ELSE IF f.kind = "list"
    THEN FileRec("obj", f.articles, NoLink)
    ELSE FileRec(f.kind, f.articles, NoLink)

\* _load_json_data: absent or not parseable gives the empty store, a bare list
\* becomes the articles, any other parsed JSON value is returned as it is
_load_json_data(f) ==
    IF f.kind \in {"absent", "garbage", "empty", "partial"}
    THEN FileRec("obj", <<>>, NoLink)
    ELSE IF f.kind = "list"
    THEN FileRec("obj", f.articles, NoLink)
    ELSE f

\* What a fetch gives: an error, a page without text, a page with text
Pages == {"error", "empty", "body"}

\* Mutant: a page without text is returned as a document
scrape_article_content_NoEmptyCheck(url, page) ==
    IF page = "error" THEN [url |-> NoUrl, text |-> "", success |-> FALSE]
    ELSE [url |-> url, text |-> page, success |-> TRUE]

\* scrape_article_content: a fetch error or an empty body gives None
scrape_article_content(url, page) ==
    IF page \in {"error", "empty"} THEN NoContent ELSE Doc(url, page)

\* start_url is a search listing of island.lk
IsListing(u) == "island.lk" \in SeqToSet(u) /\ "?s=" \in SeqToSet(u)

\* Does data_store["articles"] raise (KeyError, TypeError)?
HasArticles(ds) == ds.kind = "obj"
\* Does data_store["next_link"] = ... raise (TypeError)?
IsDict(ds) == ds.kind \in {"obj", "noart"}

----------------------------------------------------------------------------
(* Workers: the CLI process is worker 1; the service runs each background  *)
(* task on a thread of its pool                                            *)

Workers == {1, 2}
CliWorkers == {1}

NoPrev == [status |-> "none", urls |-> <<>>, report |-> <<>>]
EmptyStore == FileRec("obj", <<>>, NoLink)

NoPair == <<NoUrl, NoUrl>>

\* Nothing has run yet
Quiescent ==
    /\ sink = <<>>
    /\ launches = 0
    /\ prev = NoPrev
    /\ is_running = FALSE
    /\ http_status = 0
    /\ status = [w \in Workers |-> "idle"]
    /\ pc = [w \in Workers |-> "none"]
    /\ mode = [w \in Workers |-> "direct"]
    /\ urls = [w \in Workers |-> <<>>]
    /\ idx = [w \in Workers |-> 0]
    /\ data_store = [w \in Workers |-> EmptyStore]
    /\ existing_normalized = [w \in Workers |-> {}]
    /\ new_articles = [w \in Workers |-> <<>>]
    /\ next_link = [w \in Workers |-> NoLink]
    /\ handle = [w \in Workers |-> "closed"]
    /\ prior = [w \in Workers |-> EmptyStore]
    /\ loaded = [w \in Workers |-> <<>>]
    /\ report = [w \in Workers |-> <<>>]
    /\ fetched = [w \in Workers |-> <<>>]
    /\ ingest_log = [w \in Workers |-> ""]
    /\ loaded_link = [w \in Workers |-> NoLink]
    /\ start_btn = "normal"
    /\ log_queue = <<>>
    /\ log_box = <<>>
    /\ polling = FALSE
    /\ norm_out = <<>>

Init ==
    /\ file \in InitFiles
    /\ log_fn = "print"
    /\ norm_in = NoPair
    /\ Quiescent

\* The locals of a worker, back to their initial values
Reset(w) ==
    /\ pc' = [pc EXCEPT ![w] = "none"]
    /\ mode' = [mode EXCEPT ![w] = "direct"]
    /\ urls' = [urls EXCEPT ![w] = <<>>]
    /\ idx' = [idx EXCEPT ![w] = 0]
    /\ data_store' = [data_store EXCEPT ![w] = EmptyStore]
    /\ existing_normalized' = [existing_normalized EXCEPT ![w] = {}]
    /\ new_articles' = [new_articles EXCEPT ![w] = <<>>]
    /\ next_link' = [next_link EXCEPT ![w] = NoLink]
    /\ handle' = [handle EXCEPT ![w] = "closed"]
    /\ prior' = [prior EXCEPT ![w] = EmptyStore]
    /\ loaded' = [loaded EXCEPT ![w] = <<>>]
    /\ report' = [report EXCEPT ![w] = <<>>]
    /\ fetched' = [fetched EXCEPT ![w] = <<>>]
    /\ ingest_log' = [ingest_log EXCEPT ![w] = ""]
    /\ loaded_link' = [loaded_link EXCEPT ![w] = NoLink]

Running(w) == status[w] = "running"

----------------------------------------------------------------------------
(* process_urls *)

\* The next_link a load of the file gives: None unless the file holds an object
LinkOf(f) == IF f.kind \in {"obj", "noart"} THEN f.next_link ELSE NoLink

\* The lines a step of process_urls gives to log_fn: "Scraping: ..." for a
\* fetch, the per-URL line, the closing line
Lines(w) ==
    (IF Len(fetched'[w]) > Len(fetched[w]) THEN <<"Scraping">> ELSE <<>>)
    \o SubSeq(report'[w], Len(report[w]) + 1, Len(report'[w]))
    \o (IF ingest_log'[w] # ingest_log[w] THEN <<ingest_log'[w]>> ELSE <<>>)

\* log_fn(...): _enqueue_log puts the line on log_queue, print leaves it alone
Log(w) ==
    log_queue' = IF log_fn = "_enqueue_log" THEN log_queue \o Lines(w) ELSE log_queue

\* lines 189-196: load the store, build existing_normalized
LoadStore(w) ==
    /\ Running(w) /\ pc[w] = "load"
    /\ LET ds == _load_json_data(file) IN
       /\ data_store' = [data_store EXCEPT ![w] = ds]
       /\ IF HasArticles(ds)
          THEN /\ existing_normalized' =
                     [existing_normalized EXCEPT ![w] = ExistingNormalized(ds.articles)]
               /\ loaded' = [loaded EXCEPT ![w] = ds.articles]
               /\ idx' = [idx EXCEPT ![w] = 1]
               /\ pc' = [pc EXCEPT ![w] = "loop"]
               /\ UNCHANGED status
          ELSE /\ status' = [status EXCEPT ![w] = "aborted"]
               /\ UNCHANGED <<existing_normalized, loaded, idx, pc>>
    /\ new_articles' = [new_articles EXCEPT ![w] = <<>>]
    /\ report' = [report EXCEPT ![w] = <<>>]
    /\ UNCHANGED <<storeVars, hostVars, mode, urls, next_link, handle, prior, fetched,
                   ingest_log>>
    /\ loaded_link' = [loaded_link EXCEPT ![w] = LinkOf(file)]
    /\ Log(w)
    /\ UNCHANGED quietVars

\* lines 198-202: the URL is already known
SkipCached(w) ==
    /\ Running(w) /\ pc[w] = "loop" /\ idx[w] <= Len(urls[w])
    /\ normalize(urls[w][idx[w]]) \in existing_normalized[w]
    /\ report' = [report EXCEPT ![w] = Append(@, "skipped")]
    /\ idx' = [idx EXCEPT ![w] = @ + 1]
    /\ UNCHANGED <<storeVars, hostVars, status, pc, mode, urls, data_store,
                   existing_normalized, new_articles, next_link, handle, prior,
                   loaded, fetched, ingest_log>>
    /\ Log(w)
    /\ UNCHANGED <<quietVars, loaded_link>>

\* Mutant: the new document is put in front of the stored ones
AppendContent_Front(ds, content) == [ds EXCEPT !.articles = <<content>> \o @]

\* data_store["articles"].append(content)
AppendContent(ds, content) == [ds EXCEPT !.articles = Append(@, content)]

\* lines 204-208, 213-214: fetch and extract; on success append to the store and the batch
Scrape(w) ==
    /\ Running(w) /\ pc[w] = "loop" /\ idx[w] <= Len(urls[w])
    /\ normalize(urls[w][idx[w]]) \notin existing_normalized[w]
    /\ \E page \in Pages :
         LET content == scrape_article_content(urls[w][idx[w]], page) IN
         /\ fetched' = [fetched EXCEPT ![w] =
                           Append(@, [i |-> idx[w], url |-> urls[w][idx[w]], page |-> page])]
         /\ IF content.success
            THEN /\ data_store' = [data_store EXCEPT ![w] = AppendContent(@, content)]
                 /\ new_articles' = [new_articles EXCEPT ![w] = Append(@, content)]
                 /\ pc' = [pc EXCEPT ![w] = "save"]
                 /\ UNCHANGED <<report, idx>>
            ELSE /\ report' = [report EXCEPT ![w] = Append(@, "failed")]
                 /\ idx' = [idx EXCEPT ![w] = @ + 1]
                 /\ UNCHANGED <<data_store, new_articles, pc>>
    /\ UNCHANGED <<storeVars, hostVars, status, mode, urls, existing_normalized,
                   next_link, handle, prior, loaded, ingest_log>>
    /\ Log(w)
    /\ UNCHANGED <<quietVars, loaded_link>>

SavePoint(w) == Running(w) /\ pc[w] \in {"save", "pg_save"}

\* line 46: open(json_path, "w") truncates the file
SaveOpen(w) ==
    /\ SavePoint(w) /\ handle[w] = "closed"
    /\ prior' = [prior EXCEPT ![w] = file]
    /\ file' = FileRec("empty", <<>>, NoLink)
    /\ handle' = [handle EXCEPT ![w] = "open"]
    /\ UNCHANGED <<sink, hostVars, status, pc, mode, urls, idx, data_store,
                   existing_normalized, new_articles, next_link, loaded, report,
                   fetched, ingest_log>>
    /\ Log(w)
    /\ UNCHANGED <<quietVars, loaded_link>>

\* line 46: open raises (no permission, a directory in the way); nothing catches it
SaveOpenFail(w) ==
    /\ SavePoint(w) /\ handle[w] = "closed"
    /\ status' = [status EXCEPT ![w] = "aborted"]
    /\ UNCHANGED <<storeVars, hostVars, pc, mode, urls, idx, data_store,
                   existing_normalized, new_articles, next_link, handle, prior,
                   loaded, report, fetched, ingest_log>>
    /\ Log(w)
    /\ UNCHANGED <<quietVars, loaded_link>>

\* line 47: json.dump has written a part of the text and the buffer was flushed
SaveFlush(w) ==
    /\ SavePoint(w) /\ handle[w] = "open"
    /\ file' = FileRec("partial", <<>>, NoLink)
    /\ handle' = [handle EXCEPT ![w] = "flushed"]
    /\ UNCHANGED <<sink, hostVars, status, pc, mode, urls, idx, data_store,
                   existing_normalized, new_articles, next_link, prior, loaded,
                   report, fetched, ingest_log>>
    /\ Log(w)
    /\ UNCHANGED <<quietVars, loaded_link>>

\* line 47: a write raises (disk full); the with block closes the handle and
\* the exception leaves _save_json_data
SaveWriteFail(w) ==
    /\ SavePoint(w) /\ handle[w] \in {"open", "flushed"}
    /\ handle' = [handle EXCEPT ![w] = "closed"]
    /\ status' = [status EXCEPT ![w] = "aborted"]
    /\ UNCHANGED <<storeVars, hostVars, pc, mode, urls, idx, data_store,
                   existing_normalized, new_articles, next_link, prior, loaded,
                   report, fetched, ingest_log>>
    /\ Log(w)
    /\ UNCHANGED <<quietVars, loaded_link>>

\* Mutant: the URL just stored is not added to the index
AddNormalized_Forgets(existing, url) == existing

\* existing_normalized.add(norm_url)
AddNormalized(existing, url) == existing \cup {normalize(url)}

\* Mutant: the save leaves the content the file had before it
Written_Prior(w) == {prior[w]}

\* The file after the last write of worker w. Alone on the file, it holds the
\* text of data; when another handle truncated or wrote the file since w opened
\* it, the two texts may be mixed
Written(w) ==
    IF \/ handle[w] = "open" /\ file.kind = "empty"
       \/ handle[w] = "flushed" /\ file.kind = "partial"
    THEN {data_store[w]}
    ELSE {data_store[w], FileRec("garbage", <<>>, NoLink)}

\* lines 46-47 end: the whole text is in the file and the handle is closed;
\* in the loop lines 211-212 follow, in the paginated entry point line 356
SaveClose(w) ==
    /\ SavePoint(w) /\ handle[w] \in {"open", "flushed"}
    /\ file' \in Written(w)
    /\ handle' = [handle EXCEPT ![w] = "closed"]
    /\ IF pc[w] = "save"
       THEN /\ report' = [report EXCEPT ![w] = Append(@, "persisted")]
            /\ existing_normalized' =
                 [existing_normalized EXCEPT ![w] = AddNormalized(@, urls[w][idx[w]])]
            /\ idx' = [idx EXCEPT ![w] = @ + 1]
            /\ pc' = [pc EXCEPT ![w] = "loop"]
       ELSE /\ pc' = [pc EXCEPT ![w] = "load"]
            /\ UNCHANGED <<report, existing_normalized, idx>>
    /\ UNCHANGED <<sink, hostVars, status, mode, urls, data_store, new_articles,
                   next_link, prior, loaded, fetched, ingest_log>>
    /\ Log(w)
    /\ UNCHANGED <<quietVars, loaded_link>>

\* Mutant: the loop is left one URL early
LoopOver_Early(w) == Running(w) /\ pc[w] = "loop" /\ idx[w] >= Len(urls[w])

\* for url in urls: the list is exhausted
LoopOver(w) == Running(w) /\ pc[w] = "loop" /\ idx[w] > Len(urls[w])

\* lines 216, 218-219: nothing new, the sink is not called
NoNewContent(w) ==
    /\ LoopOver(w) /\ new_articles[w] = <<>>
    /\ ingest_log' = [ingest_log EXCEPT ![w] = "No new content found to upload."]
    /\ status' = [status EXCEPT ![w] = "done"]
    /\ UNCHANGED <<storeVars, hostVars, pc, mode, urls, idx, data_store,
                   existing_normalized, new_articles, next_link, handle, prior,
                   loaded, report, fetched>>
    /\ Log(w)
    /\ UNCHANGED <<quietVars, loaded_link>>

\* ingest_data_to_astra lines 164-181: what the try block logs
IngestLog(result) ==
    IF result = "ok" THEN "Successfully updated Astra DB Vector Store."
    ELSE "Astra DB ingestion failed"

\* Mutant: the failure of the upload is not caught
IngestStatus_Raises(result) == IF result = "failed" THEN "aborted" ELSE "done"

\* ingest_data_to_astra: the status process_urls is left in. The except of
\* line 180 swallows the failure of the embedding or of the upload
IngestStatus(result) == "done"

\* lines 216-217 and ingest_data_to_astra: the batch goes to the vector store
IngestBatch(w) ==
    /\ LoopOver(w) /\ new_articles[w] # <<>>
    /\ \E result \in {"ok", "failed"} :
         /\ sink' = Append(sink, [batch |-> new_articles[w], result |-> result])
         /\ ingest_log' = [ingest_log EXCEPT ![w] = IngestLog(result)]
         /\ status' = [status EXCEPT ![w] = IngestStatus(result)]
    /\ UNCHANGED <<file, hostVars, pc, mode, urls, idx, data_store,
                   existing_normalized, new_articles, next_link, handle, prior,
                   loaded, report, fetched>>
    /\ Log(w)
    /\ UNCHANGED <<quietVars, loaded_link>>

process_urls(w) ==
    \/ LoadStore(w)
    \/ SkipCached(w)
    \/ Scrape(w)
    \/ SaveOpen(w)
    \/ SaveOpenFail(w)
    \/ SaveFlush(w)
    \/ SaveWriteFail(w)
    \/ SaveClose(w)
    \/ NoNewContent(w)
    \/ IngestBatch(w)

----------------------------------------------------------------------------
(* The command-line entry point of scraper_v2.py: one process at a time *)

ArgLists == {<<ListingUrl>>} \cup (UrlLists(MaxUrls) \ {<<>>})

\* extract_article_links returns links without exact repeats (line 80)
LinkLists == {l \in UrlLists(MaxUrls) : \A i, j \in 1..Len(l) : l[i] = l[j] => i = j}

\* lines 340-347, 362: a new process; sys.argv decides the mode
CliStart(w) ==
    /\ status[w] = "idle" /\ launches < MaxRuns
    /\ launches' = launches + 1
    /\ status' = [status EXCEPT ![w] = "running"]
    /\ \E args \in ArgLists :
         IF IsListing(args[1])
         THEN /\ mode' = [mode EXCEPT ![w] = "paginated"]
              /\ pc' = [pc EXCEPT ![w] = "extract"]
              /\ UNCHANGED urls
         ELSE /\ mode' = [mode EXCEPT ![w] = "direct"]
              /\ pc' = [pc EXCEPT ![w] = "load"]
              /\ urls' = [urls EXCEPT ![w] = args]
    /\ UNCHANGED <<storeVars, prev, is_running, http_status, idx, data_store,
                   existing_normalized, new_articles, next_link, handle, prior,
                   loaded, report, fetched, ingest_log>>
    /\ UNCHANGED <<quietVars, log_queue, loaded_link>>

\* line 348: extract_article_links; a failure gives ([], None)
PgExtract(w) ==
    /\ Running(w) /\ pc[w] = "extract"
    /\ \E links \in LinkLists, nl \in {NoLink, NextPage} :
         /\ urls' = [urls EXCEPT ![w] = links]
         /\ next_link' = [next_link EXCEPT ![w] = nl]
    /\ pc' = [pc EXCEPT ![w] = "pg_load"]
    /\ UNCHANGED <<storeVars, hostVars, status, mode, idx, data_store,
                   existing_normalized, new_articles, handle, prior, loaded,
                   report, fetched, ingest_log>>
    /\ UNCHANGED <<quietVars, log_queue, loaded_link>>

\* data_store["next_link"] = next_link
SetNextLink(ds, nl) == [ds EXCEPT !.next_link = nl]

\* lines 352-353: load the store and set next_link in it
PgSetNext(w) ==
    /\ Running(w) /\ pc[w] = "pg_load"
    /\ LET ds == _load_json_data(file) IN
       IF IsDict(ds)
       THEN /\ data_store' = [data_store EXCEPT ![w] = SetNextLink(ds, next_link[w])]
            /\ pc' = [pc EXCEPT ![w] = "pg_save"]
            /\ UNCHANGED status
       ELSE /\ status' = [status EXCEPT ![w] = "aborted"]
            /\ UNCHANGED <<data_store, pc>>
    /\ UNCHANGED <<storeVars, hostVars, mode, urls, idx, existing_normalized,
                   new_articles, next_link, handle, prior, loaded, report, fetched,
                   ingest_log>>
    /\ UNCHANGED <<quietVars, log_queue, loaded_link>>

\* The process is killed or the machine stops, at any statement
Crash(w) ==
    /\ Running(w)
    /\ status' = [status EXCEPT ![w] = "crashed"]
    /\ UNCHANGED <<storeVars, hostVars, pc, mode, urls, idx, data_store,
                   existing_normalized, new_articles, next_link, handle, prior,
                   loaded, report, fetched, ingest_log>>
    /\ UNCHANGED <<quietVars, log_queue, loaded_link>>

\* The process is gone: it returned, died of the exception or was killed
CliExit(w) ==
    /\ status[w] \in {"done", "aborted", "crashed"}
    /\ prev' = IF status[w] = "done" /\ Len(urls[w]) = 1
               THEN [status |-> "done", urls |-> urls[w], report |-> report[w]]
               ELSE NoPrev
    /\ status' = [status EXCEPT ![w] = "idle"]
    /\ Reset(w)
    /\ UNCHANGED <<storeVars, launches, is_running, http_status>>
    /\ UNCHANGED <<quietVars, log_queue>>

----------------------------------------------------------------------------
(* The HTTP service of server.py *)

\* lines 78-84: POST /api/scrape
start_scrape(body) ==
    /\ launches < MaxRequests
    /\ launches' = launches + 1
    /\ IF is_running
       THEN /\ http_status' = 400
            /\ UNCHANGED <<status, urls>>
       ELSE \E w \in Workers :
              /\ status[w] = "idle"
              /\ status' = [status EXCEPT ![w] = "queued"]
              /\ urls' = [urls EXCEPT ![w] = body]
              /\ http_status' = 200
    /\ UNCHANGED <<storeVars, prev, is_running, pc, mode, idx, data_store,
                   existing_normalized, new_articles, next_link, handle, prior,
                   loaded, report, fetched, ingest_log>>
    /\ UNCHANGED <<quietVars, log_queue, loaded_link>>

\* lines 57-63: the background task starts on a thread of the pool
background_scrape(w) ==
    /\ status[w] = "queued"
    /\ is_running' = TRUE
    /\ status' = [status EXCEPT ![w] = "running"]
    /\ pc' = [pc EXCEPT ![w] = "load"]
    /\ UNCHANGED <<storeVars, launches, prev, http_status, mode, urls, idx,
                   data_store, existing_normalized, new_articles, next_link, handle,
                   prior, loaded, report, fetched, ingest_log>>
    /\ UNCHANGED <<quietVars, log_queue, loaded_link>>

\* Mutant: no finally, the flag is reset only after a normal return
background_finish_NoFinally(w) ==
    /\ status[w] \in {"done", "aborted"}
    /\ is_running' = IF status[w] = "done" THEN FALSE ELSE is_running
    /\ status' = [status EXCEPT ![w] = "idle"]
    /\ Reset(w)
    /\ UNCHANGED <<storeVars, launches, prev, http_status>>
    /\ UNCHANGED <<quietVars, log_queue>>

\* lines 64-68: process_urls returned or raised; finally resets is_running
background_finish(w) ==
    /\ status[w] \in {"done", "aborted"}
    /\ is_running' = FALSE
    /\ status' = [status EXCEPT ![w] = "idle"]
    /\ Reset(w)
    /\ UNCHANGED <<storeVars, launches, prev, http_status>>
    /\ UNCHANGED <<quietVars, log_queue>>

ServerNext ==
    \/ \E body \in UrlLists(MaxBody) : start_scrape(body)
    \/ \E w \in Workers :
        \/ background_scrape(w)
        \/ process_urls(w)
        \/ background_finish(w)

ServerSpec == Init /\ [][ServerNext]_vars

\* A thread of the pool that can take a step is not held back for ever
ServerLiveSpec ==
    /\ ServerSpec
    /\ \A w \in Workers : WF_vars(process_urls(w)) /\ WF_vars(background_finish(w))

----------------------------------------------------------------------------
Next ==
    \E w \in CliWorkers :
        \/ CliStart(w)
        \/ PgExtract(w)
        \/ PgSetNext(w)
        \/ process_urls(w)
        \/ Crash(w)
        \/ CliExit(w)

Spec == Init /\ [][Next]_vars

----------------------------------------------------------------------------
(* The command line used again and again on short lists: direct mode only, *)
(* more processes in a row than in Spec                                    *)

\* lines 340-344, 362: a new process in direct mode
CliRestart(w) ==
    /\ status[w] = "idle" /\ launches < MaxRestarts
    /\ launches' = launches + 1
    /\ status' = [status EXCEPT ![w] = "running"]
    /\ pc' = [pc EXCEPT ![w] = "load"]
    /\ \E args \in UrlLists(MaxBody) \ {<<>>} : urls' = [urls EXCEPT ![w] = args]
    /\ UNCHANGED <<storeVars, prev, is_running, http_status, mode, idx, data_store,
                   existing_normalized, new_articles, next_link, handle, prior,
                   loaded, report, fetched, ingest_log>>
    /\ UNCHANGED <<quietVars, log_queue, loaded_link>>

RestartNext ==
    \E w \in CliWorkers :
        \/ CliRestart(w)
        \/ process_urls(w)
        \/ Crash(w)
        \/ CliExit(w)

RestartSpec == Init /\ [][RestartNext]_vars

----------------------------------------------------------------------------
(* The desktop UI of scraper_v2.py: the Tk main thread (button, poller) and *)
(* the worker threads it starts                                             *)

DONE == "__DONE__"
Starting == "--- Starting Unified Workflow ---"
Completed == "--- Process Completed ---"
ProcessError == "Process Error"

GuiInit ==
    /\ file \in InitFiles
    /\ log_fn = "_enqueue_log"
    /\ norm_in = NoPair
    /\ Quiescent

\* Mutant: the button is left enabled
_start_work_KeepsEnabled(w, us) ==
    /\ start_btn = "normal" /\ ~polling
    /\ launches < MaxRuns
    /\ status[w] = "idle"
    /\ us # <<>>
    /\ launches' = launches + 1
    /\ start_btn' = start_btn
    /\ status' = [status EXCEPT ![w] = "queued"]
    /\ urls' = [urls EXCEPT ![w] = us]
    /\ UNCHANGED <<storeVars, prev, is_running, http_status, pc, mode, idx, data_store,
                   existing_normalized, new_articles, next_link, handle, prior,
                   loaded, report, fetched, ingest_log, loaded_link>>
    /\ UNCHANGED <<log_fn, log_queue, log_box, polling, normVars>>

\* lines 296-303: a click on the enabled button with a non-empty list
\* disables the button and starts a thread on the list
_start_work(w, us) ==
    /\ start_btn = "normal" /\ ~polling
    /\ launches < MaxRuns
    /\ status[w] = "idle"
    /\ us # <<>>
    /\ launches' = launches + 1
    /\ start_btn' = "disabled"
    /\ status' = [status EXCEPT ![w] = "queued"]
    /\ urls' = [urls EXCEPT ![w] = us]
    /\ UNCHANGED <<storeVars, prev, is_running, http_status, pc, mode, idx, data_store,
                   existing_normalized, new_articles, next_link, handle, prior,
                   loaded, report, fetched, ingest_log, loaded_link>>
    /\ UNCHANGED <<log_fn, log_queue, log_box, polling, normVars>>

\* lines 306-308: the thread logs the opening line and calls process_urls
_run_logic(w) ==
    /\ status[w] = "queued"
    /\ status' = [status EXCEPT ![w] = "running"]
    /\ pc' = [pc EXCEPT ![w] = "load"]
    /\ log_queue' = Append(log_queue, Starting)
    /\ UNCHANGED <<storeVars, hostVars, mode, urls, idx, data_store,
                   existing_normalized, new_articles, next_link, handle, prior,
                   loaded, report, fetched, ingest_log, loaded_link>>
    /\ UNCHANGED quietVars

\* lines 309-313: process_urls returned or raised; the closing line, then the
\* finally puts the marker
_run_logic_finally(w) ==
    /\ status[w] \in {"done", "aborted"}
    /\ log_queue' = log_queue
                      \o <<IF status[w] = "done" THEN Completed ELSE ProcessError>>
                      \o <<DONE>>
    /\ status' = [status EXCEPT ![w] = "idle"]
    /\ Reset(w)
    /\ UNCHANGED <<storeVars, hostVars>>
    /\ UNCHANGED quietVars

\* lines 319-327: one turn of the while loop of the poller, on the main thread
_poll_log_queue ==
    /\ log_queue # <<>>
    /\ polling' = TRUE
    /\ log_queue' = Tail(log_queue)
    /\ IF Head(log_queue) = DONE
       THEN start_btn' = "normal" /\ UNCHANGED log_box
       ELSE log_box' = Append(log_box, Head(log_queue)) /\ UNCHANGED start_btn
    /\ UNCHANGED <<storeVars, hostVars, workerVars, log_fn, normVars>>

\* lines 319, 328: the queue is found empty, the poller returns to the main loop
_poll_log_queue_return ==
    /\ polling /\ log_queue = <<>>
    /\ polling' = FALSE
    /\ UNCHANGED <<storeVars, hostVars, workerVars, log_fn, start_btn, log_queue,
                   log_box, normVars>>

GuiNext ==
    \/ \E w \in Workers, us \in UrlLists(MaxBody) : _start_work(w, us)
    \/ \E w \in Workers :
        \/ _run_logic(w)
        \/ process_urls(w)
        \/ _run_logic_finally(w)
    \/ _poll_log_queue
    \/ _poll_log_queue_return

\* Threads that can take a step do, and the timer of line 328 keeps firing
GuiSpec ==
    /\ GuiInit /\ [][GuiNext]_vars
    /\ \A w \in Workers :
          WF_vars(_run_logic(w)) /\ WF_vars(process_urls(w)) /\ WF_vars(_run_logic_finally(w))
    /\ WF_vars(_poll_log_queue) /\ WF_vars(_poll_log_queue_return)

----------------------------------------------------------------------------
(* normalize on its own: two URLs are given, their dedup keys are computed *)

Tokens == {HTTPS, HTTP, SLASH, "a", "b"}
Strings(n) == UNION {[1..k -> Tokens] : k \in 0..n}

Ex1 == <<HTTP, "example.com", SLASH, "a">>
Ex2 == <<HTTPS, "example.com", SLASH, "a">>
Ex3 == <<HTTPS, "example.com", SLASH, "a", SLASH>>
NormInputs == Strings(MaxLen) \cup {Ex1, Ex2, Ex3}

NormInit ==
    /\ file = FileRec("absent", <<>>, NoLink)
    /\ log_fn = "print"
    /\ norm_in \in NormInputs \X NormInputs
    /\ Quiescent

\* line 199: norm_url = normalize(url), for both URLs
ApplyNormalize ==
    /\ norm_out = <<>>
    /\ norm_out' = <<normalize(norm_in[1]), normalize(norm_in[2])>>
    /\ UNCHANGED <<storeVars, hostVars, workerVars, guiVars, norm_in>>

NormNext == ApplyNormalize

NormSpec == NormInit /\ [][NormNext]_vars

----------------------------------------------------------------------------
(* Properties *)

Stored == file.articles
StoredSet == SeqToSet(file.articles)

NoDupNormalized(articles) ==
    \A i, j \in 1..Len(articles) :
        ( /\ articles[i].url # NoUrl
          /\ articles[j].url # NoUrl
          /\ normalize(articles[i].url) = normalize(articles[j].url) ) => i = j

\* C1: after any sequence of process_urls runs, one at a time, from a store
\* without two entries of equal normalized URL, the article list in the store
\* file holds no two entries whose normalized URLs are equal.
C1_NoDuplicateNormalized == NoDupNormalized(Stored)

\* A second run, given a URL, its scheme and slash variant and the URL again,
\* stored the first and skipped the other two
C1_Witness ==
    /\ launches = 2
    /\ status[1] = "done"
    /\ urls[1] = <<U1, U2, U1>>
    /\ report[1] = <<"persisted", "skipped", "skipped">>
    /\ Len(Stored) >= 2

\* C2: a crash during a save leaves under the store path the complete
\* previous content or the complete new content, never an empty or a partly
\* written file.
C2_AtomicSave ==
    \A w \in Workers :
        (status[w] = "crashed" /\ handle[w] # "closed")
            => file \in {prior[w], data_store[w]}

\* C3: process_urls([u]) run twice in a row, the first run having stored u:
\* the second run reports u skipped, fetches and stores nothing, and the store
\* holds exactly one document for u.
C3_DedupIdempotence ==
    \A w \in Workers :
        ( /\ status[w] = "done"
          /\ prev.status = "done"
          /\ prev.report = <<"persisted">>
          /\ urls[w] = prev.urls )
        => /\ report[w] = <<"skipped">>
           /\ fetched[w] = <<>>
           /\ new_articles[w] = <<>>
           /\ Stored = loaded[w]
           /\ Cardinality({i \in 1..Len(Stored) : Stored[i].url = urls[w][1]}) = 1

C3_Witness ==
    /\ status[1] = "done"
    /\ prev = [status |-> "done", urls |-> <<U1>>, report |-> <<"persisted">>]
    /\ urls[1] = <<U1>>
    /\ report[1] = <<"skipped">>
    /\ Doc(U1, "body") \in StoredSet

\* The loop has dealt with position i and the file is not being written
Settled(w, i) == status[w] \in {"running", "done"} /\ handle[w] = "closed" /\ i < idx[w]

\* C4: a URL whose fetch errors or whose page has no text is reported failed
\* and the loop goes on to the next URL; no exception leaves the run at that
\* URL, every later URL that was fetched with text is in the store once the
\* loop has dealt with it, and a run that returns has reported every URL.
C4_PartialFailureIsolation ==
    \A w \in Workers :
        /\ \A k \in 1..Len(fetched[w]) :
             fetched[w][k].page \in {"error", "empty"} =>
                /\ idx[w] > fetched[w][k].i
                /\ Len(report[w]) >= fetched[w][k].i
                /\ report[w][fetched[w][k].i] = "failed"
                /\ \A m \in (k + 1)..Len(fetched[w]) :
                     (fetched[w][m].page = "body" /\ Settled(w, fetched[w][m].i))
                        => Doc(fetched[w][m].url, "body") \in StoredSet
        /\ status[w] = "done" => Len(report[w]) = Len(urls[w])

\* valid1, unreachable, valid2: both valid URLs stored, the run returned
C4_Witness ==
    /\ status[1] = "done"
    /\ urls[1] = <<U1, U3, U2>>
    /\ Len(fetched[1]) = 3
    /\ fetched[1][1].page = "error"
    /\ fetched[1][2].page = "body"
    /\ fetched[1][3].page = "body"
    /\ report[1] = <<"failed", "persisted", "persisted">>
    /\ {Doc(U3, "body"), Doc(U2, "body")} \subseteq StoredSet

\* The documents of the URLs reported persisted, in the order of the list
RECURSIVE PersistedDocs(_, _, _)
PersistedDocs(us, rep, i) ==
    IF i > Len(rep) THEN <<>>
    ELSE (IF rep[i] = "persisted" THEN <<Doc(us[i], "body")>> ELSE <<>>)
            \o PersistedDocs(us, rep, i + 1)

\* C5: when a run has returned, and between two URLs of the loop, the stored
\* sequence is the sequence the run loaded, unchanged, followed by the
\* documents of the URLs it scraped and saved, in the order of the URL list.
C5_OrderPreserved ==
    \A w \in Workers :
        (status[w] = "done" \/ (status[w] = "running" /\ pc[w] = "loop"))
            => /\ Stored = loaded[w] \o PersistedDocs(urls[w], report[w], 1)
               /\ new_articles[w] = PersistedDocs(urls[w], report[w], 1)

C5_Witness ==
    /\ status[1] = "done"
    /\ loaded[1] = <<Doc(U3, "old"), Doc(NoUrl, "old")>>
    /\ urls[1] = <<U2, U3, U1>>
    /\ Stored = <<Doc(U3, "old"), Doc(NoUrl, "old"), Doc(U2, "body")>>

\* The paginated entry point is past the save of next_link
PastNextLinkSave(w) == mode[w] = "paginated" /\ pc[w] \in {"load", "loop", "save"}

\* C6: in paginated mode next_link is in the store before the first article
\* is fetched, and it is still the store's next_link after article processing,
\* whether that returned or was interrupted by a crash.
C6_NextLinkSurvives ==
    \A w \in Workers :
        /\ (mode[w] = "paginated" /\ fetched[w] # <<>>) => PastNextLinkSave(w)
        /\ (PastNextLinkSave(w) /\ status[w] \in {"done", "crashed"})
              => _load_json_data(file).next_link = next_link[w]

\* C7: no run of process_urls ends with an exception, whatever load, the
\* fetches, the saves and the sink do.
C7_AlwaysDone == \A w \in Workers : status[w] # "aborted"

\* C8: two executions of background_scrape never overlap.
C8_SingleActiveRun ==
    Cardinality({w \in Workers : status[w] \in {"running", "done", "aborted"}}) <= 1

\* C9: when the upload of the batch fails, the failure is logged, the run
\* returns normally, and the store holds what the run loaded followed by
\* every document the run saved.
C9_SinkFailureIsolated ==
    \A w \in Workers :
        ingest_log[w] = IngestLog("failed")
            => /\ status[w] = "done"
               /\ sink # <<>>
               /\ sink[Len(sink)] = [batch |-> new_articles[w], result |-> "failed"]
               /\ Stored = loaded[w] \o new_articles[w]

C9_Witness ==
    /\ status[1] = "done"
    /\ ingest_log[1] = "Astra DB ingestion failed"
    /\ Len(sink) = 1
    /\ sink[1].result = "failed"
    /\ new_articles[1] = <<Doc(U1, "body"), Doc(U3, "body")>>
    /\ Stored = new_articles[1]

\* C10: whatever the store file holds, process_urls and the paginated entry
\* point can use what load returns: reading its documents, or setting its
\* next_link, raises nothing.
C10_LoadUsable ==
    \A w \in Workers : pc[w] \in {"load", "pg_load"} => status[w] # "aborted"

\* u without one scheme at its start and without the slashes at its end
LeadingTrailingStripped(u) ==
    RStrip(IF u # <<>> /\ u[1] \in {HTTP, HTTPS} THEN Tail(u) ELSE u)

\* C11: normalize(u) is u with a leading scheme and the trailing slash taken
\* off and the rest unchanged, so two URLs have the same key exactly when they
\* differ only in that; the three example URLs have the same key.
C11_NormalizeLeadingTrailing ==
    /\ norm_out # <<>> =>
          /\ norm_out[1] = LeadingTrailingStripped(norm_in[1])
          /\ (norm_out[1] = norm_out[2])
                <=> (LeadingTrailingStripped(norm_in[1]) = LeadingTrailingStripped(norm_in[2]))
    /\ (norm_in = <<Ex1, Ex2>> /\ norm_out # <<>>) => norm_out[1] = norm_out[2]
    /\ (norm_in = <<Ex2, Ex3>> /\ norm_out # <<>>) => norm_out[1] = norm_out[2]

\* The dedup keys of the documents the run loaded
KnownAtLoad(w) ==
    {normalize(loaded[w][i].url) : i \in {j \in 1..Len(loaded[w]) : loaded[w][j].url # NoUrl}}

\* C12: no request is issued for a URL whose normalized form is that of a
\* document in the store at load time or of a document stored earlier in the
\* same run; such a URL is reported skipped.
C12_NoFetchForKnown ==
    \A w \in Workers :
        /\ \A k \in 1..Len(fetched[w]) :
             /\ normalize(fetched[w][k].url) \notin KnownAtLoad(w)
             /\ \A m \in 1..(k - 1) :
                  fetched[w][m].page = "body"
                     => normalize(fetched[w][m].url) # normalize(fetched[w][k].url)
        /\ \A i \in 1..Len(report[w]) :
             normalize(urls[w][i]) \in KnownAtLoad(w) => report[w][i] = "skipped"

\* One URL known at load, one new, one a variant of the new one: one request
C12_Witness ==
    /\ status[1] = "done"
    /\ Doc(U3, "old") \in SeqToSet(loaded[1])
    /\ urls[1] = <<U3, U1, U2>>
    /\ report[1] = <<"skipped", "persisted", "skipped">>
    /\ Len(fetched[1]) = 1
    /\ fetched[1][1].url = U1

\* C13: the sink is called at most once in a run, only when every URL of the
\* list has been reported skipped, persisted or failed and at least one
\* document was stored; its batch is the documents stored in this run, in
\* storage order, and nothing else.
C13_SinkHandoff ==
    [][ sink' # sink =>
          \E w \in Workers :
             /\ status[w] = "running" /\ status'[w] = "done"
             /\ ingest_log[w] = ""
             /\ Len(report[w]) = Len(urls[w])
             /\ new_articles[w] # <<>>
             /\ Len(sink') = Len(sink) + 1
             /\ SubSeq(sink', 1, Len(sink)) = sink
             /\ sink'[Len(sink')].batch = PersistedDocs(urls[w], report[w], 1)
             /\ Stored = loaded[w] \o sink'[Len(sink')].batch ]_vars

\* A run over a new URL, its variant and another new URL handed over the two
\* stored documents in one call
C13_Witness ==
    /\ status[1] = "done"
    /\ urls[1] = <<U1, U2, U3>>
    /\ report[1] = <<"persisted", "skipped", "persisted">>
    /\ sink = <<[batch |-> <<Doc(U1, "body"), Doc(U3, "body")>>, result |-> "ok"]>>

\* C14: when the save of a scraped document raises, the run goes on with the
\* remaining URLs (and hands the document to the sink at the end): a failed
\* save never ends the run.
C14_SaveFailureContinues ==
    \A w \in Workers : pc[w] = "save" => status[w] # "aborted"

\* C15: the save of the state holding the document of a URL is complete
\* before the next fetch begins, and whenever the worker stands (or is
\* stopped) between two steps of the loop the store holds what the run
\* loaded followed by every document reported saved so far.
C15_DurableBeforeNextFetch ==
    /\ [](\A w \in Workers :
            ( /\ status[w] \in {"running", "done", "crashed"}
              /\ pc[w] \in {"loop", "save"}
              /\ handle[w] = "closed" )
            => Stored = loaded[w] \o PersistedDocs(urls[w], report[w], 1))
    /\ [][ \A w \in Workers :
             Len(fetched'[w]) > Len(fetched[w])
                => /\ handle[w] = "closed"
                   /\ Stored = loaded[w] \o new_articles[w] ]_vars

\* The worker was stopped between two URLs, after one save: the document is there
C15_Witness ==
    /\ status[1] = "crashed"
    /\ pc[1] = "loop" /\ handle[1] = "closed"
    /\ urls[1] = <<U1, U3, U2>>
    /\ report[1] = <<"persisted", "failed">>
    /\ Stored = loaded[1] \o <<Doc(U1, "body")>>

\* Every document handed to the sink, over all calls
RECURSIVE Handed(_)
Handed(calls) == IF calls = <<>> THEN <<>> ELSE Head(calls).batch \o Handed(Tail(calls))

\* C16: over any sequence of runs, one at a time, each normalized URL is
\* handed to the sink at most once.
C16_SinkAtMostOnce == NoDupNormalized(Handed(sink))

\* C17: two runs that overlap each load the file on their own and each save
\* their own full state: what a run holds, and what a completed save of it
\* leaves in the file, is what that run loaded followed by its own
\* additions, without what the other run added since. (A final store that
\* lacks a document handed to the sink is C17_Witness.)
C17_LostUpdate ==
    /\ [](\A w \in Workers :
            pc[w] \in {"loop", "save"}
                => data_store[w].articles = loaded[w] \o new_articles[w])
    /\ [][ \A w \in Workers :
             ( /\ pc[w] = "save" /\ handle[w] # "closed" /\ pc'[w] = "loop"
               /\ file'.kind = "obj" )
                => file'.articles = loaded[w] \o new_articles[w] ]_vars

\* Both runs have returned, and the store lacks a document that one of them
\* reported saved and handed to the sink
C17_Witness ==
    /\ \A w \in Workers : status[w] = "done" /\ handle[w] = "closed"
    /\ file.kind = "obj"
    /\ \E w \in Workers :
          /\ report[w] = <<"persisted">>
          /\ \E i \in 1..Len(sink) :
                /\ sink[i].batch = new_articles[w]
                /\ normalize(new_articles[w][1].url) \notin ExistingNormalized(Stored)

\* C18: process_urls never changes the pagination pointer: after every save
\* of the loop that completed, and when the run has returned, the next_link of
\* the store is the one the run loaded.
C18_DirectKeepsNextLink ==
    /\ [](\A w \in Workers : status[w] = "done" => LinkOf(file) = loaded_link[w])
    /\ [][ \A w \in Workers :
             (pc[w] = "save" /\ handle[w] # "closed" /\ pc'[w] = "loop")
                => LinkOf(file') = loaded_link[w] ]_vars

\* A direct run on a store with a next_link has saved a document and returned
C18_Witness ==
    /\ status[1] = "done" /\ mode[1] = "direct"
    /\ "persisted" \in SeqToSet(report[1])
    /\ loaded_link[1] = NextPage
    /\ file.kind = "obj" /\ file.next_link = NextPage

\* C19: is_running is set when background_scrape starts; it is never left
\* set with no task behind it; a POST that finds it reset is accepted; and
\* every run that started ends with the task gone and is_running reset,
\* whether process_urls returned or raised.
C19_IsRunningReset ==
    /\ [](is_running => \E w \in Workers : status[w] \in {"running", "done", "aborted"})
    /\ [][ \A w \in Workers :
             (status[w] = "queued" /\ status'[w] = "running") => is_running' ]_vars
    /\ [][ (launches' = launches + 1 /\ ~is_running) => http_status' = 200 ]_vars
    /\ \A w \in Workers :
          (status[w] = "running") ~> (status[w] = "idle" /\ ~is_running)

\* The only run raised out of a save, the task is over and the flag is reset
C19_Witness ==
    /\ launches = 1
    /\ \A w \in Workers : status[w] = "idle"
    /\ file.kind \in {"empty", "partial"}
    /\ ~is_running

\* C20: in the desktop UI the button is disabled exactly while a worker
\* thread is alive or its marker waits in the queue; at most one worker is
\* alive; the marker is put once per worker, last in the queue, when the
\* worker ends by a return or by an exception; the button is re-enabled only
\* with the queue empty and the closing line of the run shown; and a
\* disabled button is always re-enabled in the end.
C20_StartButtonGuardsRun ==
    /\ [](start_btn = "disabled"
            <=> \/ \E w \in Workers : status[w] # "idle"
                \/ DONE \in SeqToSet(log_queue))
    /\ [](Cardinality({w \in Workers : status[w] # "idle"}) <= 1)
    /\ [](\A i \in 1..Len(log_queue) :
            log_queue[i] = DONE
                => i = Len(log_queue) /\ \A w \in Workers : status[w] = "idle")
    /\ [][ \A w \in Workers :
             (status[w] # "idle" /\ status'[w] = "idle")
                => /\ DONE \notin SeqToSet(log_queue)
                   /\ log_queue' # <<>> /\ log_queue'[Len(log_queue')] = DONE ]_vars
    /\ [][ (start_btn = "disabled" /\ start_btn' = "normal")
                => /\ log_queue' = <<>>
                   /\ log_box # <<>>
                   /\ log_box[Len(log_box)] \in {Completed, ProcessError} ]_vars
    /\ (start_btn = "disabled") ~> (start_btn = "normal")

\* process_urls raised in a run, its lines are shown and the button is enabled again
C20_Witness ==
    /\ start_btn = "normal" /\ launches = 1
    /\ \A w \in Workers : status[w] = "idle"
    /\ log_queue = <<>>
    /\ Len(log_box) >= 3
    /\ log_box[1] = Starting
    /\ log_box[Len(log_box)] = ProcessError

====
